---- MODULE Spec2Model ----
(***************************************************************************)
(* Model of src/expence_tracker.py: the Expense record, the ExpenseTracker *)
(* ledger (add_expense, merge_sort_by_amount, merge,                       *)
(* binary_search_by_date, view_expenses, analyze_expenses).                *)
(*                                                                         *)
(* Conventions.                                                            *)
(*  - A date string "YYYY-MM-DD" is the sequence of its '-'-separated      *)
(*    fields, each field the sequence of its decimal digits:               *)
(*    "2024-03-05" is << <<2,0,2,4>>, <<0,3>>, <<0,5>> >>.                 *)
(*  - An Expense object is a record; its field id stands for the identity  *)
(*    of the Python object (two Expense objects with equal fields are      *)
(*    still two objects).  In the tracker the id is the creation rank.     *)
(*  - Loop counters keep the 0-based values of the Python code; a Python   *)
(*    access xs[i] is written xs[i + 1].                                   *)
(*  - Amounts are integers (float rounding is not modelled).               *)
(***************************************************************************)
EXTENDS Integers, Sequences, FiniteSets, TLC

VARIABLES
    expenses,         \* self.expenses
    nSuccess,         \* number of add_expense calls that reached line 33
    op,               \* the method that ran last
    argDate,          \* its date-string argument, <<>> when it has none
    argList,          \* the list handed to merge_sort_by_amount, after the call
    raised,           \* the exception that left the method, "none" otherwise
    printed,          \* what the method printed first
    ret,              \* the list the method produced
    hit,              \* binary_search_by_date: 0-based mid of the hit, -1 if none
    swaps,            \* add_expense: executions of the swap on line 30
    aggregated,       \* analyze_expenses: lines 130-132 were reached
    category_totals   \* analyze_expenses: the dict built on lines 130-132

vars == <<expenses, nSuccess, op, argDate, argList, raised, printed, ret, hit,
          swaps, aggregated, category_totals>>

(* The largest number of records the ledger (or a list to sort) holds. *)
MaxExpenses == 3

-----------------------------------------------------------------------------
(* Inputs *)

(* The date strings the caller adds expenses under: two dates, one of them *)
(* written in two ways.                                                    *)
LedgerDateStrings ==
    { << <<2,0,2,4>>, <<0,3>>, <<0,5>> >>,      \* 2024-03-05
      << <<2,0,2,4>>, <<0,3>>, <<0,1>> >>,      \* 2024-03-01
      << <<2,0,2,4>>, <<3>>, <<5>> >> }         \* 2024-3-5

(* Dates the caller only searches for: before, between and after those. *)
AbsentDateStrings ==
    { << <<2,0,2,4>>, <<0,2>>, <<2,9>> >>,      \* 2024-02-29 (leap day)
      << <<2,0,2,4>>, <<0,3>>, <<0,3>> >>,      \* 2024-03-03
      << <<2,0,2,4>>, <<1,2>>, <<3,1>> >> }     \* 2024-12-31

InvalidDateStrings ==
    { << <<2,0,2,3>>, <<0,2>>, <<2,9>> >>,      \* 2023-02-29 (no such day)
      << <<2,0,2,4>>, <<0,4>>, <<3,1>> >>,      \* 2024-04-31 (no such day)
      << <<2,0,2,4>>, <<1,3>>, <<0,1>> >>,      \* 2024-13-01 (no such month)
      << <<2,4>>, <<0,3>>, <<0,5>> >>,          \* 24-03-05   (two-digit year)
      << <<2,0,2,4>>, <<0,3>> >> }              \* 2024-03    (no day)

AddDateStrings == LedgerDateStrings \cup InvalidDateStrings

DateStrings == LedgerDateStrings \cup AbsentDateStrings \cup InvalidDateStrings

Amounts == {5, 10}

Categories == {"Food", "Travel"}

Descriptions == {"note"}

-----------------------------------------------------------------------------
(* datetime.strptime(date, "%Y-%m-%d") *)

RECURSIVE Num(_)
Num(ds) ==
    IF ds = <<>> THEN 0
    ELSE 10 * Num(SubSeq(ds, 1, Len(ds) - 1)) + ds[Len(ds)]

IsLeap(y) == (y % 4 = 0 /\ y % 100 # 0) \/ y % 400 = 0

DaysInMonth(y, m) ==
    IF m = 2 THEN (IF IsLeap(y) THEN 29 ELSE 28)
    ELSE IF m \in {4, 6, 9, 11} THEN 30 ELSE 31

(* The string matches the format and names a calendar date; otherwise      *)
(* strptime raises ValueError.                                             *)
IsValidDateString(s) ==
    /\ Len(s) = 3
    /\ Len(s[1]) = 4
    /\ Len(s[2]) \in 1..2
    /\ Len(s[3]) \in 1..2
    /\ Num(s[1]) >= 1
    /\ Num(s[2]) \in 1..12
    /\ Num(s[3]) \in 1..31
    /\ Num(s[3]) <= DaysInMonth(Num(s[1]), Num(s[2]))

strptime(s) == [year |-> Num(s[1]), month |-> Num(s[2]), day |-> Num(s[3])]

(* datetime comparison *)
DateLT(a, b) ==
    \/ a.year < b.year
    \/ a.year = b.year /\ a.month < b.month
    \/ a.year = b.year /\ a.month = b.month /\ a.day < b.day

DateGT(a, b) == DateLT(b, a)

DateLE(a, b) == ~DateLT(b, a)

-----------------------------------------------------------------------------
(* class Expense *)

Expense(id, date, amount, category, description) ==
    [id |-> id, date |-> strptime(date), amount |-> amount,
     category |-> category, description |-> description]

-----------------------------------------------------------------------------
(* add_expense: the insertion loop of lines 26-31 *)

InsertStartOffByOne(list) == Len(list) - 1

(* line 26: i = len(self.expenses), taken before the append *)
InsertStart(list) == Len(list)

ShiftCondLT(list, i) == i > 0 /\ DateLT(list[i].date, list[i + 1].date)

ShiftCondGE(list, i) == i > 0 /\ ~DateLT(list[i].date, list[i + 1].date)

(* line 29: i > 0 and self.expenses[i-1].date > self.expenses[i].date *)
ShiftCond(list, i) == i > 0 /\ DateGT(list[i].date, list[i + 1].date)

SwapOverwrite(list, i) == [list EXCEPT ![i + 1] = list[i]]

(* line 30: self.expenses[i-1], self.expenses[i] = ... *)
Swap(list, i) == [list EXCEPT ![i] = list[i + 1], ![i + 1] = list[i]]

RECURSIVE InsertLoop(_, _, _)
InsertLoop(list, i, n) ==
    IF ShiftCond(list, i)
    THEN InsertLoop(Swap(list, i), i - 1, n + 1)
    ELSE [list |-> list, swaps |-> n]

(* lines 26-31 *)
Insert(list, new_expense) ==
    InsertLoop(Append(list, new_expense), InsertStart(list), 0)

-----------------------------------------------------------------------------
(* merge and merge_sort_by_amount *)

MergeTakeLeftStrict(l, r) == l.amount < r.amount

(* line 58: left[i].amount <= right[j].amount *)
MergeTakeLeft(l, r) == l.amount <= r.amount

RECURSIVE MergeLoop(_, _, _, _, _)
MergeLoop(left, right, i, j, result) ==
    IF i < Len(left) /\ j < Len(right)
    THEN IF MergeTakeLeft(left[i + 1], right[j + 1])
         THEN MergeLoop(left, right, i + 1, j, Append(result, left[i + 1]))
         ELSE MergeLoop(left, right, i, j + 1, Append(result, right[j + 1]))
    ELSE result \o SubSeq(left, i + 1, Len(left))
                \o SubSeq(right, j + 1, Len(right))

merge(left, right) == MergeLoop(left, right, 0, 0, <<>>)

RECURSIVE merge_sort_by_amount(_)
merge_sort_by_amount(list) ==
    IF Len(list) <= 1 THEN list
    ELSE LET mid == Len(list) \div 2
         IN  merge(merge_sort_by_amount(SubSeq(list, 1, mid)),
                   merge_sort_by_amount(SubSeq(list, mid + 1, Len(list))))

-----------------------------------------------------------------------------
(* binary_search_by_date, over the list self.expenses *)

ScanCondLT(left, right) == left < right

(* line 78: while left <= right *)
ScanCond(left, right) == left <= right

(* lines 84-87: the scan to the left of the hit *)
RECURSIVE ScanLeft(_, _, _, _)
ScanLeft(list, target, i, results) ==
    IF i >= 0 /\ list[i + 1].date = target
    THEN ScanLeft(list, target, i - 1, Append(results, list[i + 1]))
    ELSE results

(* lines 89-92: the scan to the right of the hit *)
RECURSIVE ScanRight(_, _, _, _)
ScanRight(list, target, i, results) ==
    IF i < Len(list) /\ list[i + 1].date = target
    THEN ScanRight(list, target, i + 1, Append(results, list[i + 1]))
    ELSE results

CollectRightFirst(list, target, mid) ==
    ScanLeft(list, target, mid - 1,
             ScanRight(list, target, mid + 1, <<list[mid + 1]>>))

(* lines 82-93: the hit, then the left scan, then the right scan *)
Collect(list, target, mid) ==
    ScanRight(list, target, mid + 1,
              ScanLeft(list, target, mid - 1, <<list[mid + 1]>>))

(* lines 78-99 *)
RECURSIVE SearchLoop(_, _, _, _)
SearchLoop(list, target, left, right) ==
    IF ScanCond(left, right)
    THEN LET mid == (left + right) \div 2
         IN  IF list[mid + 1].date = target
             THEN [results |-> Collect(list, target, mid), mid |-> mid]
             ELSE IF DateLT(list[mid + 1].date, target)
                  THEN SearchLoop(list, target, mid + 1, right)
                  ELSE SearchLoop(list, target, left, mid - 1)
    ELSE [results |-> <<>>, mid |-> -1]

(* lines 75-99, once target_date has parsed *)
binary_search(list, target) == SearchLoop(list, target, 0, Len(list) - 1)

-----------------------------------------------------------------------------
(* analyze_expenses: the dict built on lines 130-132 *)

AccumulateOverwrite(totals, expense) ==
    [c \in DOMAIN totals \cup {expense.category} |->
        IF c = expense.category THEN expense.amount ELSE totals[c]]

(* line 132: category_totals[c] = category_totals.get(c, 0) + amount *)
Accumulate(totals, expense) ==
    [c \in DOMAIN totals \cup {expense.category} |->
        IF c = expense.category
        THEN (IF c \in DOMAIN totals THEN totals[c] ELSE 0) + expense.amount
        ELSE totals[c]]

EmptyDict == [c \in {} |-> 0]

RECURSIVE TotalsLoop(_, _, _)
TotalsLoop(list, k, totals) ==
    IF k < Len(list)
    THEN TotalsLoop(list, k + 1, Accumulate(totals, list[k + 1]))
    ELSE totals

-----------------------------------------------------------------------------
(* The tracker *)

Init ==
    /\ expenses = <<>>
    /\ nSuccess = 0
    /\ op = "init"
    /\ argDate = <<>>
    /\ argList = <<>>
    /\ raised = "none"
    /\ printed = ""
    /\ ret = <<>>
    /\ hit = -1
    /\ swaps = 0
    /\ aggregated = FALSE
    /\ category_totals = EmptyDict

AddFailPropagates ==
    /\ expenses' = expenses
    /\ nSuccess' = nSuccess
    /\ raised' = "ValueError"
    /\ printed' = ""

(* lines 35-36: the ValueError of Expense() is caught and printed *)
AddFail ==
    /\ expenses' = expenses
    /\ nSuccess' = nSuccess
    /\ raised' = "none"
    /\ printed' = "Error"

(* add_expense *)
AddExpense(date, amount, category, description) ==
    /\ IsValidDateString(date) => Len(expenses) < MaxExpenses
    /\ op' = "add_expense"
    /\ argDate' = date
    /\ argList' = <<>>
    /\ ret' = <<>>
    /\ hit' = -1
    /\ aggregated' = FALSE
    /\ category_totals' = EmptyDict
    /\ IF IsValidDateString(date)
       THEN LET new_expense ==
                    Expense(nSuccess + 1, date, amount, category, description)
                done == Insert(expenses, new_expense)
            IN  /\ expenses' = done.list
                /\ swaps' = done.swaps
                /\ nSuccess' = nSuccess + 1
                /\ raised' = "none"
                /\ printed' = "Expense added successfully!"
       ELSE /\ AddFail
            /\ swaps' = 0

ViewExpensesInPlace(sort_by_amount) ==
    /\ op' = "view_expenses"
    /\ argDate' = <<>>
    /\ raised' = "none"
    /\ hit' = -1
    /\ swaps' = 0
    /\ aggregated' = FALSE
    /\ category_totals' = EmptyDict
    /\ nSuccess' = nSuccess
    /\ argList' = <<>>
    /\ IF expenses = <<>>
       THEN /\ printed' = "No expenses recorded yet."
            /\ ret' = <<>>
            /\ expenses' = expenses
       ELSE /\ printed' = "Expense List"
            /\ expenses' = (IF sort_by_amount
                            THEN merge_sort_by_amount(expenses) ELSE expenses)
            /\ ret' = expenses'

(* view_expenses; ret is display_expenses *)
ViewExpenses(sort_by_amount) ==
    /\ op' = "view_expenses"
    /\ argDate' = <<>>
    /\ raised' = "none"
    /\ hit' = -1
    /\ swaps' = 0
    /\ aggregated' = FALSE
    /\ category_totals' = EmptyDict
    /\ UNCHANGED <<expenses, nSuccess>>
    /\ IF expenses = <<>>
       THEN /\ printed' = "No expenses recorded yet."
            /\ argList' = <<>>
            /\ ret' = <<>>
       ELSE /\ printed' = "Expense List"
            /\ IF sort_by_amount
               THEN LET copy == expenses
                    IN  /\ ret' = merge_sort_by_amount(copy)
                        /\ argList' = copy
               ELSE /\ ret' = expenses
                    /\ argList' = <<>>

(* binary_search_by_date *)
BinarySearchByDate(target_date) ==
    /\ op' = "binary_search_by_date"
    /\ argDate' = target_date
    /\ argList' = <<>>
    /\ printed' = ""
    /\ swaps' = 0
    /\ aggregated' = FALSE
    /\ category_totals' = EmptyDict
    /\ UNCHANGED <<expenses, nSuccess>>
    /\ IF IsValidDateString(target_date)
       THEN LET found == binary_search(expenses, strptime(target_date))
            IN  /\ raised' = "none"
                /\ ret' = found.results
                /\ hit' = found.mid
       ELSE /\ raised' = "ValueError"
            /\ ret' = <<>>
            /\ hit' = -1

(* analyze_expenses *)
AnalyzeExpenses ==
    /\ op' = "analyze_expenses"
    /\ argDate' = <<>>
    /\ argList' = <<>>
    /\ raised' = "none"
    /\ ret' = <<>>
    /\ hit' = -1
    /\ swaps' = 0
    /\ UNCHANGED <<expenses, nSuccess>>
    /\ IF expenses = <<>>
       THEN /\ printed' = "No expenses to analyze."
            /\ aggregated' = FALSE
            /\ category_totals' = EmptyDict
       ELSE /\ printed' = ""
            /\ aggregated' = TRUE
            /\ category_totals' = TotalsLoop(expenses, 0, EmptyDict)

Next ==
    \/ \E date \in AddDateStrings, amount \in Amounts,
          category \in Categories, description \in Descriptions :
            AddExpense(date, amount, category, description)
    \/ \E sort_by_amount \in BOOLEAN : ViewExpenses(sort_by_amount)
    \/ \E target_date \in DateStrings : BinarySearchByDate(target_date)
    \/ AnalyzeExpenses

Spec == Init /\ [][Next]_vars

-----------------------------------------------------------------------------
(* merge_sort_by_amount called on a list of the caller's *)

ExpenseValues ==
    { Expense(0, d, a, c, t) :
        d \in {s \in LedgerDateStrings : IsValidDateString(s)},
        a \in Amounts, c \in Categories, t \in Descriptions }

(* The list of the Expense objects of f, all distinct objects. *)
ListOf(f) == [k \in DOMAIN f |-> [f[k] EXCEPT !.id = k]]

SortInit ==
    /\ expenses = <<>>
    /\ nSuccess = 0
    /\ op = "init"
    /\ argDate = <<>>
    /\ \E n \in 0..MaxExpenses :
          \E f \in [1..n -> ExpenseValues] : argList = ListOf(f)
    /\ raised = "none"
    /\ printed = ""
    /\ ret = <<>>
    /\ hit = -1
    /\ swaps = 0
    /\ aggregated = FALSE
    /\ category_totals = EmptyDict

MergeSortByAmount ==
    /\ op = "init"
    /\ op' = "merge_sort_by_amount"
    /\ ret' = merge_sort_by_amount(argList)
    /\ UNCHANGED <<expenses, nSuccess, argDate, argList, raised, printed, hit,
                   swaps, aggregated, category_totals>>

SortNext == MergeSortByAmount

SortSpec == SortInit /\ [][SortNext]_vars

-----------------------------------------------------------------------------
(* Vocabulary of the properties *)

IsSortedByDate(list) ==
    \A k \in 1..(Len(list) - 1) : DateLE(list[k].date, list[k + 1].date)

IsSortedByAmount(list) ==
    \A k \in 1..(Len(list) - 1) : list[k].amount <= list[k + 1].amount

(* How many positions of list hold the object e. *)
Occurrences(list, e) == Cardinality({j \in 1..Len(list) : list[j] = e})

RemoveAt(list, p) == SubSeq(list, 1, p - 1) \o SubSeq(list, p + 1, Len(list))

RECURSIVE SumAmounts(_)
SumAmounts(list) ==
    IF list = <<>> THEN 0 ELSE list[1].amount + SumAmounts(Tail(list))

OfCategory(list, c) == LET Is(e) == e.category = c IN SelectSeq(list, Is)

CategoriesOf(list) == {list[k].category : k \in 1..Len(list)}

SuccessfulAdd == op = "add_expense" /\ IsValidDateString(argDate)

FailedAdd == op = "add_expense" /\ ~IsValidDateString(argDate)

Searched == op = "binary_search_by_date" /\ raised = "none"

-----------------------------------------------------------------------------
(* C1: after any sequence of add_expense calls on a fresh tracker the      *)
(* ledger is non-decreasing by date and holds as many records as there     *)
(* were successful insertions.                                             *)
C1_SortedAndCounted ==
    /\ IsSortedByDate(expenses)
    /\ Len(expenses) = nSuccess

(* The third record added carries the earliest date and was moved to the   *)
(* front.                                                                  *)
C1_Witness ==
    /\ Len(expenses) = 3
    /\ expenses[1].id = 3
    /\ DateLT(expenses[1].date, expenses[2].date)

C3_FindByDateExact ==
    Searched =>
        LET d == strptime(argDate)
        IN  /\ \A k \in 1..Len(expenses) :
                  expenses[k].date = d => Occurrences(ret, expenses[k]) = 1
            /\ \A j \in 1..Len(ret) :
                  /\ ret[j].date = d
                  /\ Occurrences(expenses, ret[j]) = 1
            /\ (\A k \in 1..Len(expenses) : expenses[k].date # d) => ret = <<>>

(* A search that returns two of three records. *)
C3_Witness ==
    /\ Searched
    /\ Len(expenses) = 3
    /\ Len(ret) = 2

(* C4: merge_sort_by_amount returns a permutation of its input that is     *)
(* non-decreasing by amount and keeps records of equal amount in their     *)
(* input order.                                                            *)
C4_SortStablePermutation ==
    op = "merge_sort_by_amount" =>
        /\ Len(ret) = Len(argList)
        /\ \A k \in 1..Len(argList) : Occurrences(ret, argList[k]) = 1
        /\ IsSortedByAmount(ret)
        /\ \A i, j \in 1..Len(argList) :
              (i < j /\ argList[i].amount = argList[j].amount)
                 => \E a, b \in 1..Len(ret) :
                       a < b /\ ret[a] = argList[i] /\ ret[b] = argList[j]

(* Three records, the first and the last of one amount, the middle one     *)
(* cheaper: the sort moves it to the front.                                *)
C4_Witness ==
    /\ op = "merge_sort_by_amount"
    /\ Len(argList) = 3
    /\ argList[1].amount = argList[3].amount
    /\ argList[2].amount < argList[1].amount
    /\ ret[1] = argList[2]

(* C5: two records of the ledger with the same date stand in the order in  *)
(* which they were added.                                                  *)
C5_StableAmongEqualDates ==
    \A i, j \in 1..Len(expenses) :
        (i < j /\ expenses[i].date = expenses[j].date)
           => expenses[i].id < expenses[j].id

(* The third record was moved one place left and stopped behind the       *)
(* record of its own date.                                                 *)
C5_Witness ==
    /\ SuccessfulAdd
    /\ Len(expenses) = 3
    /\ swaps = 1
    /\ expenses[2].id = 3
    /\ expenses[1].date = expenses[2].date

(* C6: a successful add_expense makes the ledger one longer; taking the    *)
(* new record out of the new ledger gives the old ledger, order included.  *)
C6_InsertAddsExactlyOne ==
    [][(op' = "add_expense" /\ IsValidDateString(argDate'))
          => /\ Len(expenses') = Len(expenses) + 1
             /\ \E p \in 1..Len(expenses') :
                   /\ RemoveAt(expenses', p) = expenses
                   /\ Occurrences(expenses, expenses'[p]) = 0]_vars

(* The second record was added in front of the first. *)
C6_Witness ==
    /\ SuccessfulAdd
    /\ Len(expenses) = 2
    /\ expenses[1].id = 2

(* C7: view_expenses, binary_search_by_date and analyze_expenses leave the *)
(* ledger as it was, and the list view_expenses hands to the sort is the   *)
(* same after the sort.                                                    *)
C7_QueriesLeaveLedger ==
    [][(op' \in {"view_expenses", "binary_search_by_date", "analyze_expenses"})
          => /\ expenses' = expenses
             /\ (op' = "view_expenses" /\ argList' # <<>>)
                   => argList' = expenses]_vars

(* An amount-sorted view whose order differs from the ledger's. *)
C7_Witness ==
    /\ op = "view_expenses"
    /\ Len(ret) = 3
    /\ ret # expenses
    /\ IsSortedByAmount(ret)

C9_SwapCount ==
    SuccessfulAdd =>
        \E p \in 1..Len(expenses) :
            /\ expenses[p].id = nSuccess
            /\ expenses[p].date = strptime(argDate)
            /\ swaps = Cardinality({k \in 1..Len(expenses) :
                          DateGT(expenses[k].date, expenses[p].date)})
            /\ p = Len(expenses) - swaps
            /\ (p = 1 \/ DateLE(expenses[p - 1].date, expenses[p].date))
            /\ (\A k \in 1..Len(expenses) :
                   DateLE(expenses[k].date, expenses[p].date)) => swaps = 0

(* The new record passed two later-dated records. *)
C9_Witness ==
    /\ SuccessfulAdd
    /\ swaps = 2
    /\ expenses[1].id = nSuccess

====
